---- MODULE Spec2Model ----
(***************************************************************************)
(* Real-data discrete Fourier transform of src/src/real.rs: the in-place   *)
(* transform of a real buffer (transform), the recombination butterfly     *)
(* (compose) and the expansion of a packed spectrum (unpack).              *)
(*                                                                         *)
(* Numbers.  An f64 is modelled exactly, without rounding, as an element   *)
(* of Q(sqrt 2): <<a, b, d>> stands for (a + b*sqrt(2)) / d with d > 0 and *)
(* gcd(a, b, d) = 1.  Every 8th root of unity has both parts in this       *)
(* field, so the transforms of sizes 2, 4 and 8 are computed exactly; the  *)
(* claims' "within tolerance" is therefore checked as equality.            *)
(* Slices and vectors are functions over 0 .. len-1, so that every index   *)
(* is the index the source uses.                                           *)
(***************************************************************************)
EXTENDS Integers, Sequences, FiniteSets

(***************************************************************************)
(* Bounds of the model.                                                    *)
(***************************************************************************)
MaxVal == 1
MaxCalls == 2

Vals == 0..MaxVal

(* f64 values: (a + b*sqrt(2)) / d in lowest terms *)
Abs(x) == IF x < 0 THEN -x ELSE x

RECURSIVE Gcd(_, _)
Gcd(a, b) == IF b = 0 THEN a ELSE Gcd(b, a % b)

Reduce(a, b, d, g) == <<a \div g, b \div g, d \div g>>

RNorm(a, b, d) == Reduce(a, b, d, Gcd(Gcd(Abs(a), Abs(b)), d))

R(n) == <<n, 0, 1>>
RAdd(x, y) == RNorm(x[1] * y[3] + y[1] * x[3], x[2] * y[3] + y[2] * x[3], x[3] * y[3])
RNeg(x) == <<-x[1], -x[2], x[3]>>
RSub(x, y) == RAdd(x, RNeg(y))
RMul(x, y) == RNorm(x[1] * y[1] + 2 * x[2] * y[2], x[1] * y[2] + x[2] * y[1], x[3] * y[3])
RDiv(x, k) == RNorm(x[1], x[2], x[3] * k)

(* c64 values and the operations real.rs uses on them *)
C64(re, im) == [re |-> re, im |-> im]
CAdd(x, y) == C64(RAdd(x.re, y.re), RAdd(x.im, y.im))
CSub(x, y) == C64(RSub(x.re, y.re), RSub(x.im, y.im))
CMul(x, y) == C64(RSub(RMul(x.re, y.re), RMul(x.im, y.im)),
                  RAdd(RMul(x.re, y.im), RMul(x.im, y.re)))
Conj(x) == C64(x.re, RNeg(x.im))
ScaleHalf(x) == C64(RDiv(x.re, 2), RDiv(x.im, 2))

Length(f) == Cardinality(DOMAIN f)

(***************************************************************************)
(* State.  Three operations are followed, each in a specification of its   *)
(* own; the variables of the other two stay as they start.                 *)
(*                                                                         *)
(* transform (Spec):                                                       *)
(*   buffer   the caller's real buffer (self of transform)                 *)
(*   plan     the plan of the transform call in progress                   *)
(*   pc       where the call stands: idle (no call), entry, first, second, *)
(*            done (about to return), panic                                *)
(*   calls    the collaborators the call has invoked so far, in order      *)
(*   pre      the buffer as it was when the call was entered               *)
(*   orig     the buffer as it was before the first call                   *)
(*   hist     the operations of the calls that have returned               *)
(*   ncalls   the number of calls made                                     *)
(* compose (SpecCompose):                                                  *)
(*   half     data, the half-buffer compose works on                       *)
(*   half0    data as it was when compose was called                       *)
(*   cfactors the twiddle table passed to compose (factors)                *)
(*   cinverse the flag passed to compose (inverse)                         *)
(*   cpc      head, loop, done, panic                                      *)
(*   ci       the loop variable i                                          *)
(*   reads    the indices m - j at which factors has been indexed          *)
(* unpack (SpecUnpack):                                                    *)
(*   packed   data, the slice passed to unpack                             *)
(*   packed0  that slice as it was when unpack was called                  *)
(*   cdata    the vector unpack builds                                     *)
(*   writes   how often each element of cdata has been assigned            *)
(*   upc      entry, alloc, dc, low, high, done, panic_assert, panic_index *)
(*   ui       the loop variable i                                          *)
(*   mirror   the indices n - i read from cdata by the second loop         *)
(*   stale    an element of cdata was read before it was assigned          *)
(***************************************************************************)
VARIABLES buffer, plan, pc, calls, pre, orig, hist, ncalls,
          half, half0, cfactors, cinverse, cpc, ci, reads,
          packed, packed0, cdata, writes, upc, ui, mirror, stale

tvars == <<buffer, plan, pc, calls, pre, orig, hist, ncalls>>
cvars == <<half, half0, cfactors, cinverse, cpc, ci, reads>>
uvars == <<packed, packed0, cdata, writes, upc, ui, mirror, stale>>
vars == <<tvars, cvars, uvars>>

(* e^(2*pi*i*e/8): the 8th roots of unity, h = sqrt(2)/2 *)
Root8(e) ==
  LET h == <<0, 1, 2>>
      k == e % 8
  IN  CASE k = 0 -> C64(R(1), R(0))
        [] k = 1 -> C64(h, h)
        [] k = 2 -> C64(R(0), R(1))
        [] k = 3 -> C64(RNeg(h), h)
        [] k = 4 -> C64(R(-1), R(0))
        [] k = 5 -> C64(RNeg(h), RNeg(h))
        [] k = 6 -> C64(R(0), R(-1))
        [] OTHER -> C64(h, RNeg(h))

(***************************************************************************)
(* The collaborators of real.rs, which the repository defines elsewhere.   *)
(***************************************************************************)
Operation == {"Forward", "Backward", "Inverse"}

Sizes == {2, 4, 8}

OpSign(operation) == IF operation = "Forward" THEN -1 ELSE 1

(* The twiddle table of a plan: m entries, aligned at the high end, the    *)
(* entry at index m - j being e^(s*2*pi*i*(size/2 - j)/size).              *)
PlanFactors(size, m, operation) ==
  [p \in 0..(m - 1) |->
     Root8(OpSign(operation) * (p - m + size \div 2) * (8 \div size))]

Plan(size, m, operation) ==
  [size |-> size, operation |-> operation, factors |-> PlanFactors(size, m, operation)]

(* The lengths of the twiddle table the model tries for a plan of a size:  *)
(* size/4, size/2 - 1 and size - 1.                                        *)
FactorLens(size) == {size \div 4, size \div 2 - 1, size - 1}

Plans == {Plan(s, m, o) : <<s, m, o>> \in
            {t \in Sizes \X (0..7) \X Operation : t[2] \in FactorLens(t[1])}}

RECURSIVE DftSum(_, _, _, _)
DftSum(data, k, t, w) ==
  IF t < 0 THEN C64(R(0), R(0))
  ELSE CAdd(DftSum(data, k, t - 1, w), CMul(data[t], Root8(w * t * k)))

(* The complex transform of a buffer of len points: the DFT with kernel    *)
(* e^(-2*pi*i*t*k/len) for Forward and e^(+2*pi*i*t*k/len) otherwise,      *)
(* divided by len for Inverse.                                             *)
ComplexTransform(data, operation) ==
  LET len == Length(data)
      w == OpSign(operation) * (8 \div len)
  IN  [k \in DOMAIN data |->
         LET z == DftSum(data, k, len - 1, w)
         IN  IF operation = "Inverse"
             THEN C64(RDiv(z.re, len), RDiv(z.im, len))
             ELSE z]

(***************************************************************************)
(* real.rs                                                                 *)
(***************************************************************************)

(* from_raw_parts_mut(self.as_mut_ptr() as *mut c64, n / 2): the first     *)
(* n / 2 pairs of the buffer seen as complex numbers, and the buffer after *)
(* a write through that view.                                              *)
View(self) ==
  [k \in 0..(Length(self) \div 2 - 1) |-> C64(self[2 * k], self[2 * k + 1])]

Store(self, data) ==
  [k \in DOMAIN self |->
     IF k \div 2 \in DOMAIN data
     THEN IF k % 2 = 0 THEN data[k \div 2].re ELSE data[k \div 2].im
     ELSE self[k]]

(* A variant of ButterflyIndex that is one too low. *)
ButterflyIndexOffByOne(m, j) == m - j - 1

(* factors[m - j]: the index *)
ButterflyIndex(m, j) == m - j

(* data[i] = (part1 + product).scale(0.5);                  *)
(* data[j] = (part1 - product).scale(0.5).conj()            *)
ButterflyStore(data, i, j, part1, product) ==
  [data EXCEPT ![i] = ScaleHalf(CAdd(part1, product)),
               ![j] = Conj(ScaleHalf(CSub(part1, product)))]

(* part1, part2 and product of the pair (i, j), with the twiddle w *)
ButterflyPair(data, i, j, w, sign) ==
  ButterflyStore(data, i, j,
                 CAdd(data[i], Conj(data[j])),
                 CMul(CMul(C64(R(0), R(sign)), w), CSub(data[i], Conj(data[j]))))

(* One iteration of the loop of compose; ok = FALSE is a panic (an index   *)
(* out of range, or m - j below zero), which leaves data as it was then.   *)
ButterflyAt(data, i, j, factors, x, sign) ==
  IF i \notin DOMAIN data \/ j \notin DOMAIN data \/ x \notin DOMAIN factors
  THEN [data |-> data, ok |-> FALSE]
  ELSE [data |-> ButterflyPair(data, i, j, factors[x], sign), ok |-> TRUE]

Butterfly(data, i, n, factors, sign) ==
  ButterflyAt(data, i, n - i, factors, ButterflyIndex(Length(factors), n - i), sign)

RECURSIVE ComposeLoop(_, _, _, _, _)
ComposeNext(r, i, n, factors, sign) ==
  IF r.ok THEN ComposeLoop(r.data, i + 1, n, factors, sign) ELSE r

ComposeLoop(data, i, n, factors, sign) ==
  IF i >= n \div 2 THEN [data |-> data, ok |-> TRUE]
  ELSE ComposeNext(Butterfly(data, i, n, factors, sign), i, n, factors, sign)

(* A variant of ComposeHead that halves element 0 in both directions. *)
ComposeHeadAlwaysScaled(data, inverse) ==
  LET d0 == C64(RAdd(data[0].re, data[0].im), RSub(data[0].re, data[0].im))
  IN  [data EXCEPT ![0] = ScaleHalf(d0)]

(* data[0] = c64!(re + im, re - im); if inverse { data[0].scale(0.5) } *)
ComposeHead(data, inverse) ==
  LET d0 == C64(RAdd(data[0].re, data[0].im), RSub(data[0].re, data[0].im))
  IN  [data EXCEPT ![0] = IF inverse THEN ScaleHalf(d0) ELSE d0]

(* data[n / 2] = data[n / 2].conj(), when the loop has ended normally *)
ComposeTail(r, n) ==
  IF ~r.ok \/ n \div 2 \notin DOMAIN r.data
  THEN [data |-> r.data, ok |-> FALSE]
  ELSE [data |-> [r.data EXCEPT ![n \div 2] = Conj(@)], ok |-> TRUE]

compose(data, n, factors, inverse) ==
  IF 0 \notin DOMAIN data THEN [data |-> data, ok |-> FALSE]
  ELSE ComposeTail(ComposeLoop(ComposeHead(data, inverse), 1, n, factors,
                               IF inverse THEN 1 ELSE -1), n)

(***************************************************************************)
(* transform, statement by statement.                                      *)
(***************************************************************************)
NoPlan == [size |-> 0, operation |-> "Forward", factors |-> <<>>]

(* The buffers transform is tried on: every buffer over Vals of length 2   *)
(* and 4, and buffers of length 8 built from four values of Vals.          *)
Buffers ==
  UNION {[0..(n - 1) -> {R(v) : v \in Vals}] : n \in Sizes \ {8}}
  \cup {[k \in 0..7 |-> R(a + b * k + c * ((k * k) % 5) - d * (k % 3))] :
          a \in Vals, b \in Vals, c \in Vals, d \in Vals}

TInit ==
  /\ buffer \in Buffers
  /\ plan = NoPlan
  /\ pc = "idle"
  /\ calls = <<>>
  /\ pre = buffer
  /\ orig = buffer
  /\ hist = <<>>
  /\ ncalls = 0
  (* compose and unpack are not followed *)
  /\ half = <<>>
  /\ half0 = <<>>
  /\ cfactors = <<>>
  /\ cinverse = FALSE
  /\ cpc = "done"
  /\ ci = 0
  /\ reads = {}
  /\ packed = <<>>
  /\ packed0 = <<>>
  /\ cdata = <<>>
  /\ writes = <<>>
  /\ upc = "done"
  /\ ui = 0
  /\ mirror = {}
  /\ stale = FALSE

(* The caller enters transform(&mut self, plan). *)
Call(p) ==
  /\ pc = "idle"
  /\ ncalls < MaxCalls
  /\ plan' = p
  /\ pc' = "entry"
  /\ calls' = <<>>
  /\ pre' = buffer
  /\ ncalls' = ncalls + 1
  /\ UNCHANGED <<buffer, orig, hist, cvars, uvars>>

(* A variant of SizeOk that accepts a buffer longer than the plan. *)
SizeAtLeast(n, p) == n >= p.size

(* assert!(n == plan.size) *)
SizeOk(n, p) == n = p.size

CheckSize ==
  /\ pc = "entry"
  /\ pc' = IF SizeOk(Length(buffer), plan) THEN "first" ELSE "panic"
  /\ UNCHANGED <<buffer, plan, calls, pre, orig, hist, ncalls, cvars, uvars>>

(* A variant of Steps that keeps the Forward order in every direction. *)
StepsForwardOrder(operation) == <<"transform", "compose">>

(* The two arms of match plan.operation: what runs first and second. *)
Steps(operation) ==
  IF operation = "Forward" THEN <<"transform", "compose">>
  ELSE <<"compose", "transform">>

InverseFlag(operation) == operation # "Forward"

(* The effect of one of the two statements of an arm on the buffer, *)
(* through the view data of n / 2 complex numbers.                  *)
RunStep(what) ==
  LET n == Length(buffer)
      data == View(buffer)
  IN  IF what = "transform"
      THEN [data |-> ComplexTransform(data, plan.operation), ok |-> TRUE,
            call |-> [fn |-> "transform", len |-> Length(data), args |-> <<>>]]
      ELSE LET r == compose(data, n \div 2, plan.factors, InverseFlag(plan.operation))
           IN  [data |-> r.data, ok |-> r.ok,
                call |-> [fn |-> "compose", len |-> Length(data),
                          args |-> <<n \div 2, InverseFlag(plan.operation)>>]]

RunFirst ==
  /\ pc = "first"
  /\ \E r \in {RunStep(Steps(plan.operation)[1])} :
         /\ buffer' = Store(buffer, r.data)
         /\ calls' = Append(calls, r.call)
         /\ pc' = IF r.ok THEN "second" ELSE "panic"
  /\ UNCHANGED <<plan, pre, orig, hist, ncalls, cvars, uvars>>

RunSecond ==
  /\ pc = "second"
  /\ \E r \in {RunStep(Steps(plan.operation)[2])} :
         /\ buffer' = Store(buffer, r.data)
         /\ calls' = Append(calls, r.call)
         /\ pc' = IF r.ok THEN "done" ELSE "panic"
         /\ hist' = IF r.ok THEN Append(hist, plan.operation) ELSE hist
  /\ UNCHANGED <<plan, pre, orig, ncalls, cvars, uvars>>

(* transform returns: the call's plan and view are gone, the buffer is the *)
(* caller's again.                                                         *)
Return ==
  /\ pc = "done"
  /\ pc' = "idle"
  /\ plan' = NoPlan
  /\ calls' = <<>>
  /\ pre' = buffer
  /\ UNCHANGED <<buffer, orig, hist, ncalls, cvars, uvars>>

TNext ==
  \/ \E p \in Plans : Call(p)
  \/ CheckSize
  \/ RunFirst
  \/ RunSecond
  \/ Return

Spec == TInit /\ [][TNext]_vars

(***************************************************************************)
(* compose, statement by statement, on a half-buffer of its own.           *)
(***************************************************************************)
HalfLens == {1, 2, 4, 6, 8}

CVals == {C64(R(a), R(b)) : a \in Vals, b \in Vals}

(* The half-buffers compose is tried on: every buffer over CVals up to     *)
(* length 4, and buffers of pairwise different elements beyond.            *)
HalfBuffers(n) ==
  IF n <= 4 THEN [0..(n - 1) -> CVals]
  ELSE {[k \in 0..(n - 1) |-> C64(R(a * k + b + 1), R(c * k * k - d - 2 * k))] :
          a \in Vals, b \in Vals, c \in Vals, d \in Vals}

(* A table of m twiddles in which neighbours differ. *)
Table(m) == [p \in 0..(m - 1) |-> Root8(p + 1)]

CInit ==
  /\ \E n \in HalfLens :
       /\ half \in HalfBuffers(n)
       /\ \E m \in FactorLens(2 * n) : cfactors = Table(m)
  /\ half0 = half
  /\ cinverse \in BOOLEAN
  /\ cpc = "head"
  /\ ci = 0
  /\ reads = {}
  (* transform and unpack are not followed *)
  /\ buffer = <<>>
  /\ plan = NoPlan
  /\ pc = "idle"
  /\ calls = <<>>
  /\ pre = <<>>
  /\ orig = <<>>
  /\ hist = <<>>
  /\ ncalls = MaxCalls
  /\ packed = <<>>
  /\ packed0 = <<>>
  /\ cdata = <<>>
  /\ writes = <<>>
  /\ upc = "done"
  /\ ui = 0
  /\ mirror = {}
  /\ stale = FALSE

(* data[0] = ...; if inverse { data[0] = data[0].scale(0.5) } *)
ComposeFirst ==
  /\ cpc = "head"
  /\ IF 0 \in DOMAIN half
     THEN /\ half' = ComposeHead(half, cinverse)
          /\ cpc' = "loop"
          /\ ci' = 1
     ELSE /\ cpc' = "panic"
          /\ UNCHANGED <<half, ci>>
  /\ UNCHANGED <<half0, cfactors, cinverse, reads, tvars, uvars>>

(* one iteration of for i in 1..(n / 2) *)
ComposeIter ==
  /\ cpc = "loop"
  /\ ci < Length(half) \div 2
  /\ LET n == Length(half)
         r == Butterfly(half, ci, n, cfactors, IF cinverse THEN 1 ELSE -1)
     IN  /\ reads' = reads \cup {ButterflyIndex(Length(cfactors), n - ci)}
         /\ half' = r.data
         /\ cpc' = IF r.ok THEN "loop" ELSE "panic"
         /\ ci' = IF r.ok THEN ci + 1 ELSE ci
  /\ UNCHANGED <<half0, cfactors, cinverse, tvars, uvars>>

(* data[n / 2] = data[n / 2].conj() *)
ComposeLast ==
  /\ cpc = "loop"
  /\ ci >= Length(half) \div 2
  /\ half' = [half EXCEPT ![Length(half) \div 2] = Conj(@)]
  /\ cpc' = "done"
  /\ UNCHANGED <<half0, cfactors, cinverse, ci, reads, tvars, uvars>>

CNext == ComposeFirst \/ ComposeIter \/ ComposeLast

SpecCompose == CInit /\ [][CNext]_vars

(* The statements above and the operator compose are the same function. *)
ComposeAgrees ==
  cpc \in {"done", "panic"} =>
    LET r == compose(half0, Length(half0), cfactors, cinverse)
    IN  r.ok = (cpc = "done") /\ r.data = half

(***************************************************************************)
(* unpack, statement by statement.                                         *)
(***************************************************************************)
MaxLen == 8

(* The slices unpack is tried on: every slice over Vals of a length up to  *)
(* MaxLen, and the two slices of the repository's test.                    *)
Iota(n) == [k \in 0..(n - 1) |-> R(k + 1)]

Slices ==
  UNION {[0..(n - 1) -> {R(v) : v \in Vals}] : n \in 0..MaxLen} \cup {Iota(4), Iota(8)}

UInit ==
  /\ packed \in Slices
  /\ packed0 = packed
  /\ cdata = <<>>
  /\ writes = <<>>
  /\ upc = "entry"
  /\ ui = 0
  /\ mirror = {}
  /\ stale = FALSE
  (* transform and compose are not followed *)
  /\ buffer = <<>>
  /\ plan = NoPlan
  /\ pc = "idle"
  /\ calls = <<>>
  /\ pre = <<>>
  /\ orig = <<>>
  /\ hist = <<>>
  /\ ncalls = MaxCalls
  /\ half = <<>>
  /\ half0 = <<>>
  /\ cfactors = <<>>
  /\ cinverse = FALSE
  /\ cpc = "done"
  /\ ci = 0
  /\ reads = {}

(* usize::is_power_of_two *)
RECURSIVE IsPowerOfTwo(_)
IsPowerOfTwo(n) ==
  /\ n >= 1
  /\ \/ n = 1
     \/ n % 2 = 0 /\ IsPowerOfTwo(n \div 2)

(* The value an element of cdata holds before it is assigned; it is never  *)
(* observed: a read of such an element draws from Garbage instead.         *)
Unset == C64(R(0), R(0))

Garbage == {C64(R(-7), R(-7)), C64(R(9), R(-9))}

(* cdata[i] = v *)
Assign(i, v) ==
  /\ cdata' = [cdata EXCEPT ![i] = v]
  /\ writes' = [writes EXCEPT ![i] = @ + 1]

(* assert!(n.is_power_of_two()) *)
UnpackAssert ==
  /\ upc = "entry"
  /\ upc' = IF IsPowerOfTwo(Length(packed)) THEN "alloc" ELSE "panic_assert"
  /\ UNCHANGED <<packed, packed0, cdata, writes, ui, mirror, stale, tvars, cvars>>

(* Vec::with_capacity(n); cdata.set_len(n) *)
UnpackAlloc ==
  /\ upc = "alloc"
  /\ cdata' = [k \in 0..(Length(packed) - 1) |-> Unset]
  /\ writes' = [k \in 0..(Length(packed) - 1) |-> 0]
  /\ upc' = "dc"
  /\ UNCHANGED <<packed, packed0, ui, mirror, stale, tvars, cvars>>

(* for i in 1..(n / 2): the first value of i *)
LowFirst == 1

(* cdata[0] = c64!(data[0], 0.0) *)
UnpackDc ==
  /\ upc = "dc"
  /\ IF 0 \in DOMAIN cdata /\ 0 \in DOMAIN packed
     THEN /\ Assign(0, C64(packed[0], R(0)))
          /\ upc' = "low"
          /\ ui' = LowFirst
     ELSE /\ upc' = "panic_index"
          /\ UNCHANGED <<cdata, writes, ui>>
  /\ UNCHANGED <<packed, packed0, mirror, stale, tvars, cvars>>

(* A variant of LowValue with the two parts exchanged. *)
LowValueSwapped(data, i) == C64(data[2 * i + 1], data[2 * i])

(* c64!(data[2 * i], data[2 * i + 1]) *)
LowValue(data, i) == C64(data[2 * i], data[2 * i + 1])

(* cdata[i] = c64!(data[2 * i], data[2 * i + 1]), for i in 1..(n / 2) *)
UnpackLow ==
  /\ upc = "low"
  /\ ui < Length(packed) \div 2
  /\ IF ui \in DOMAIN cdata /\ 2 * ui + 1 \in DOMAIN packed
     THEN /\ Assign(ui, LowValue(packed, ui))
          /\ ui' = ui + 1
          /\ upc' = "low"
     ELSE /\ upc' = "panic_index"
          /\ UNCHANGED <<cdata, writes, ui>>
  /\ UNCHANGED <<packed, packed0, mirror, stale, tvars, cvars>>

(* cdata[n / 2] = c64!(data[1], 0.0), once the first loop has ended *)
UnpackNyquist ==
  /\ upc = "low"
  /\ ui >= Length(packed) \div 2
  /\ LET n == Length(packed)
     IN  IF 1 \in DOMAIN packed /\ n \div 2 \in DOMAIN cdata
         THEN /\ Assign(n \div 2, C64(packed[1], R(0)))
              /\ upc' = "high"
              /\ ui' = n \div 2 + 1
         ELSE /\ upc' = "panic_index"
              /\ UNCHANGED <<cdata, writes, ui>>
  /\ UNCHANGED <<packed, packed0, mirror, stale, tvars, cvars>>

(* A variant of MirrorIndex that reads the element being assigned. *)
MirrorIndexSelf(n, i) == i

(* n - i, the element the second loop reads *)
MirrorIndex(n, i) == n - i

(* A variant of MirrorValue that copies without conjugating. *)
MirrorValueNoConj(c) == c

(* cdata[n - i].conj() *)
MirrorValue(c) == Conj(c)

(* cdata[i] = cdata[n - i].conj(), for i in (n / 2 + 1)..n; the element    *)
(* read holds anything at all when it has not been assigned                *)
UnpackHigh ==
  /\ upc = "high"
  /\ ui < Length(packed)
  /\ LET x == MirrorIndex(Length(packed), ui)
     IN  IF x \in DOMAIN cdata /\ ui \in DOMAIN cdata
         THEN /\ mirror' = mirror \cup {x}
              /\ stale' = (stale \/ writes[x] = 0)
              /\ \E c \in (IF writes[x] = 0 THEN Garbage ELSE {cdata[x]}) :
                   Assign(ui, MirrorValue(c))
              /\ ui' = ui + 1
              /\ upc' = "high"
         ELSE /\ upc' = "panic_index"
              /\ UNCHANGED <<cdata, writes, ui, mirror, stale>>
  /\ UNCHANGED <<packed, packed0, tvars, cvars>>

(* cdata, returned once the second loop has ended *)
UnpackReturn ==
  /\ upc = "high"
  /\ ui >= Length(packed)
  /\ upc' = "done"
  /\ UNCHANGED <<packed, packed0, cdata, writes, ui, mirror, stale, tvars, cvars>>

UNext ==
  \/ UnpackAssert
  \/ UnpackAlloc
  \/ UnpackDc
  \/ UnpackLow
  \/ UnpackNyquist
  \/ UnpackHigh
  \/ UnpackReturn

SpecUnpack == UInit /\ [][UNext]_vars

(***************************************************************************)
(* Properties.                                                             *)
(***************************************************************************)
RECURSIVE SumTo(_, _, _)
SumTo(x, k, alt) ==
  IF k < 0 THEN R(0)
  ELSE RAdd(SumTo(x, k - 1, alt), IF alt /\ k % 2 = 1 THEN RNeg(x[k]) ELSE x[k])

Sum(x) == SumTo(x, Length(x) - 1, FALSE)
AltSum(x) == SumTo(x, Length(x) - 1, TRUE)

RoundTripDone == pc = "done" /\ hist = <<"Forward", "Inverse">>

ForwardDone == pc = "done" /\ hist = <<"Forward">>

(* C1: a Forward transform followed by an Inverse transform of the same    *)
(* size leaves the buffer equal to the original, element by element, for   *)
(* every power-of-two length N >= 2.                                       *)
C1_RoundTrip == RoundTripDone => buffer = orig

(* C1 restricted to N >= 4, where it holds. *)
RoundTripFrom4 == RoundTripDone /\ Length(orig) >= 4 => buffer = orig

(* C2: after a Forward transform element 0 is the sum of the input and     *)
(* element 1 its alternating-sign sum, for every power-of-two N >= 2.      *)
C2_DcNyquist == ForwardDone => buffer[0] = Sum(orig) /\ buffer[1] = AltSum(orig)

(* C2 restricted to N >= 4, where it holds. *)
DcNyquistFrom4 ==
  ForwardDone /\ Length(orig) >= 4 => buffer[0] = Sum(orig) /\ buffer[1] = AltSum(orig)

(* The layout C3 states, as a function of the packed input p of length n. *)
Layout(p, n) ==
  [i \in 0..(n - 1) |->
     IF i = 0 THEN C64(p[0], R(0))
     ELSE IF i < n \div 2 THEN C64(p[2 * i], p[2 * i + 1])
     ELSE IF i = n \div 2 THEN C64(p[1], R(0))
     ELSE C64(p[2 * (n - i)], RNeg(p[2 * (n - i) + 1]))]

Pair(a, b) == C64(R(a), R(b))

(* C3: the vector unpack returns has the length of its input and the       *)
(* layout f[0] = (p[0], 0), f[i] = (p[2i], p[2i+1]) below N/2,             *)
(* f[N/2] = (p[1], 0), f[i] = conj(f[N-i]) above N/2; unpack of 1..4 and   *)
(* of 1..8 are the vectors of the repository's test.                       *)
C3_UnpackLayout ==
  upc = "done" =>
    /\ cdata = Layout(packed0, Length(packed0))
    /\ \A i \in DOMAIN cdata :
         i > Length(packed0) \div 2 => cdata[i] = Conj(cdata[Length(packed0) - i])
    /\ packed0 = Iota(4) =>
         cdata = [i \in 0..3 |->
                    <<Pair(1, 0), Pair(3, 4), Pair(2, 0), Pair(3, -4)>>[i + 1]]
    /\ packed0 = Iota(8) =>
         cdata = [i \in 0..7 |->
                    <<Pair(1, 0), Pair(3, 4), Pair(5, 6), Pair(7, 8),
                      Pair(2, 0), Pair(7, -8), Pair(5, -6), Pair(3, -4)>>[i + 1]]

C3_Witness == upc = "done" /\ packed0 = Iota(8)

(* C4: the vector unpack returns is Hermitian: element N - i is the        *)
(* conjugate of element i for 0 < i < N, and elements 0 and N/2 have       *)
(* imaginary part 0.                                                       *)
C4_Hermitian ==
  upc = "done" =>
    LET n == Length(packed0)
    IN  /\ \A i \in 1..(n - 1) : cdata[n - i] = Conj(cdata[i])
        /\ cdata[0].im = R(0)
        /\ cdata[n \div 2].im = R(0)

C4_Witness ==
  /\ upc = "done"
  /\ Length(packed0) = 8
  /\ \E i \in 1..3 : cdata[i].im # R(0)

(* C5: a transform call whose buffer length differs from plan.size goes    *)
(* from its entry to a panic and nowhere else: no collaborator is invoked  *)
(* and the buffer stays as it was at the call.                             *)
C5_SizeMismatch ==
  pc # "idle" /\ Length(buffer) # plan.size =>
    /\ pc \in {"entry", "panic"}
    /\ calls = <<>>
    /\ buffer = pre

C5_Witness == pc = "panic" /\ Length(buffer) # plan.size

(* C6: unpack panics when the length of its input is not a power of two    *)
(* and, for every input whose length is a power of two, it does not panic  *)
(* and returns a vector of the length of the input.                        *)
C6_UnpackTotal ==
  LET n == Length(packed0)
  IN  /\ ~IsPowerOfTwo(n) => upc \in {"entry", "panic_assert"}
      /\ IsPowerOfTwo(n) => upc \notin {"panic_assert", "panic_index"}
      /\ upc = "done" => Length(cdata) = n

(* What C7 states a call invokes, in order. *)
ExpectedCalls(p) ==
  LET h == p.size \div 2
      t == [fn |-> "transform", len |-> h, args |-> <<>>]
      c(inv) == [fn |-> "compose", len |-> h, args |-> <<h, inv>>]
  IN  IF p.operation = "Forward" THEN <<t, c(FALSE)>> ELSE <<c(TRUE), t>>

(* C7: a call on a buffer of length plan.size invokes the complex          *)
(* transform and compose once each on the view of plan.size / 2 elements:  *)
(* Forward runs the transform, then compose with inverse = false; Backward *)
(* and Inverse run compose with inverse = true, then the transform.        *)
C7_Order ==
  /\ pc \in {"entry", "first"} => calls = <<>>
  /\ pc = "second" => calls = SubSeq(ExpectedCalls(plan), 1, 1)
  /\ pc = "done" => calls = ExpectedCalls(plan)
  /\ pc = "panic" =>
       \E k \in 0..2 : calls = SubSeq(ExpectedCalls(plan), 1, k)

C7_Witness == pc = "done" /\ plan.operation = "Backward" /\ plan.size = 8

(* What C8 states compose leaves in element k, from the pre-call values d. *)
ComposeExpected(d, n, f, inv, k) ==
  LET i == IF k < n \div 2 THEN k ELSE n - k
      j == n - i
      sign == IF inv THEN 1 ELSE -1
      part1 == CAdd(d[i], Conj(d[j]))
      part2 == CSub(d[i], Conj(d[j]))
      product == CMul(CMul(C64(R(0), R(sign)), f[Length(f) - j]), part2)
      d0 == C64(RAdd(d[0].re, d[0].im), RSub(d[0].re, d[0].im))
  IN  IF k = 0 THEN (IF inv THEN ScaleHalf(d0) ELSE d0)
      ELSE IF k = n \div 2 THEN Conj(d[k])
      ELSE IF k < n \div 2 THEN ScaleHalf(CAdd(part1, product))
      ELSE Conj(ScaleHalf(CSub(part1, product)))

(* C8: for an even halfLen, compose leaves (re + im, re - im) of the old   *)
(* element 0 in element 0, halved exactly when inverse; the butterfly of   *)
(* the old elements i and j = halfLen - i in elements i and j; and the     *)
(* conjugate of the old midpoint in element halfLen / 2.                   *)
C8_ComposeResult ==
  cpc = "done" /\ Length(half0) % 2 = 0 /\ Length(half0) > 0 =>
    /\ DOMAIN half = DOMAIN half0
    /\ \A k \in DOMAIN half0 :
         half[k] = ComposeExpected(half0, Length(half0), cfactors, cinverse, k)

C8_Witness == cpc = "done" /\ Length(half0) = 8 /\ ~cinverse

FactorReadsInRange ==
  /\ cpc # "panic"
  /\ \A x \in reads : 0 <= x /\ x < Length(cfactors)

(* C9 as stated: with a table of exactly M = N/4 = halfLen/2 twiddles,     *)
(* compose reads only indices M - j with 0 <= M - j < M and does not       *)
(* panic.                                                                  *)
C9_QuarterTableInRange ==
  Length(cfactors) = Length(half0) \div 2 => FactorReadsInRange

(* C9 as amended: with a table of m >= N/2 - 1 = halfLen - 1 twiddles,     *)
(* compose reads only indices m - j with 0 <= m - j < m and does not       *)
(* panic.                                                                  *)
C9_LongTableInRange ==
  Length(cfactors) >= Length(half0) - 1 => FactorReadsInRange

C9_Witness ==
  /\ cpc = "done"
  /\ Length(cfactors) = Length(half0) - 1
  /\ Cardinality(reads) = 3

(* C10: when unpack returns, every element of the vector has been assigned *)
(* exactly once; the second loop reads only elements 1 .. N/2 - 1, each    *)
(* already assigned; and the input slice is never written.                 *)
C10_NoUninit ==
  /\ upc = "done" =>
       /\ DOMAIN cdata = DOMAIN packed0
       /\ \A k \in DOMAIN writes : writes[k] = 1
  /\ ~stale
  /\ mirror \subseteq 1..(Length(packed0) \div 2 - 1)
  /\ packed = packed0

C10_Witness == upc = "done" /\ Cardinality(mirror) = 3

====
